---- MODULE Spec2Model ----
(***************************************************************************)
(* Model of napa::zone::NapaZone (src/src/zone/napa-zone.cpp): the static  *)
(* zone registry (Create / Get under the registry mutex), the constructor  *)
(* with its bootstrap barrier, and Broadcast / Execute.  The Scheduler,    *)
(* Worker, CallContext and TimeoutTaskDecorator classes that napa-zone.cpp *)
(* calls are modelled from the design document (sections 4.1 - 4.5).       *)
(***************************************************************************)
EXTENDS Naturals, Integers, Sequences, FiniteSets, TLC

\* ---------------------------------------------------------------- bounds
MaxZones == 2
MaxWorkers == 2
MaxTasks == 2
MaxCalls == 3
NumThreads == 2

Ids == {"a", "b"}
Zones == 1..MaxZones
Workers == 0..(MaxWorkers - 1)
Calls == 1..MaxCalls
Threads == 1..NumThreads

NoZone == 0
NoCall == 0
NoThread == 0

\* the task that is neither a boot task nor a call task: "no task"
\* no context index
NoCtxId == MaxWorkers

NoTask == [c |-> NoCall, i |-> 0, boot |-> FALSE]
BootTask == [c |-> NoCall, i |-> 0, boot |-> TRUE]
CallTaskOf(c, i) == [c |-> c, i |-> i, boot |-> FALSE]

VARIABLES
    registry,   \* NapaZone::_zones : id -> weak_ptr (NoZone: no entry)
    lock,       \* NapaZone::_mutex : the thread holding it, or NoThread
    zone,       \* zone instances : [st, id, workers, counter, promise]
    hold,       \* the shared_ptr<NapaZone> each client thread holds
    th,         \* each client thread's position : [pc, z, c, i, op, id, n]
    ret,        \* the last return of Create / Get : [thread, op, value]
    wk,         \* workers : [st, q, cur, boot, enq, deq]
    idleQ,      \* the scheduler's idle-worker queue, per zone
    calls,      \* Execute / Broadcast invocations, numbered as they are made
    ctxs,       \* the CallContexts : [st, res, timer]
    last,       \* per call, the context that was resolved most recently
    via,        \* per call and worker : [how placed, tasks placed, executions,
                \* place in the worker's enqueue order and in its start order]
    aborted     \* NAPA_ASSERT failed : the process is gone

vars == <<registry, lock, zone, hold, th, ret, wk, idleQ, calls, ctxs, last,
          via, aborted>>

regVars == <<registry, lock, zone, hold, ret>>
callVars == <<calls, ctxs, last, via>>

\* ---------------------------------------------------------------- state
NoZoneRec == [st |-> "none", id |-> "", workers |-> 0, counter |-> 0,
              promise |-> "none"]
IdleThread == [pc |-> "idle", z |-> NoZone, c |-> NoCall, i |-> 0,
               op |-> "none", id |-> "", n |-> 0]
NoWorker == [st |-> "none", q |-> <<>>, cur |-> NoTask, boot |-> "none",
             enq |-> 0, deq |-> 0]
NoCallRec == [kind |-> "none", z |-> NoZone, by |-> NoThread, timeout |-> 0,
              deco |-> FALSE, counter |-> 0,
              cbCount |-> 0, cbResult |-> "none"]
NoCtx == [st |-> "none", res |-> "none", timer |-> "off"]
NoRet == [t |-> NoThread, op |-> "none", val |-> NoZone]
NoPlace == [how |-> "none", n |-> 0, execs |-> 0, pos |-> 0, start |-> 0]

Init ==
    /\ registry = [id \in Ids |-> NoZone]
    /\ lock = NoThread
    /\ zone = [z \in Zones |-> NoZoneRec]
    /\ hold = [t \in Threads |-> {}]
    /\ th = [t \in Threads |-> IdleThread]
    /\ ret = NoRet
    /\ wk = [z \in Zones |-> [w \in Workers |-> NoWorker]]
    /\ idleQ = [z \in Zones |-> <<>>]
    /\ calls = [c \in Calls |-> NoCallRec]
    /\ ctxs = [c \in Calls |-> [i \in Workers |-> NoCtx]]
    /\ last = [c \in Calls |-> NoCtxId]
    /\ via = [c \in Calls |-> [w \in Workers |-> NoPlace]]
    /\ aborted = FALSE

\* the workers of zone z : WorkerId in [0, settings.workers)
WorkersOf(z) == {w \in Workers : w < zone[z].workers}

\* the strong reference count of zone z
Holders(z) == {t \in Threads : z \in hold[t]}

\* weak_ptr::expired() : no strong reference is left
Expired(z) == Holders(z) = {}

FreeZones == {z \in Zones : zone[z].st = "none"}
FreeCalls == {c \in Calls : calls[c].kind = "none"}
Lowest(S) == CHOOSE x \in S : \A y \in S : x <= y

\* the tasks a call puts on worker queues : one for an Execute, one per
\* worker for a Broadcast
TasksOf(c) ==
    IF calls[c].kind = "exec" THEN 1
    ELSE IF calls[c].kind = "bcast" THEN zone[calls[c].z].workers
    ELSE 0

RECURSIVE TasksUpTo(_)
TasksUpTo(c) == IF c = 0 THEN 0 ELSE TasksOf(c) + TasksUpTo(c - 1)

\* the tasks submitted so far
TasksUsed == TasksUpTo(MaxCalls)

\* ------------------------------------------------------------ Scheduler
\* Scheduler::Scheduler : settings.workers workers, each with an empty queue,
\* started on its own thread
NewWorkers(n) ==
    [w \in Workers |-> IF w < n THEN [NoWorker EXCEPT !.st = "starting"]
                       ELSE NoWorker]

\* the queue is a stack : the new task goes in front
EnqueueFront(ws, w, task) ==
    [ws EXCEPT ![w].q = <<task>> \o @, ![w].enq = @ + 1]

\* Worker::Schedule : append to the worker's private FIFO queue; enq counts
\* the tasks the worker was ever given
Enqueue(ws, w, task) == [ws EXCEPT ![w].q = Append(@, task), ![w].enq = @ + 1]

\* Scheduler::ScheduleOnAllWorkers : the same task on every worker's queue
ScheduleOnAllWorkers(ws, n, task) ==
    [w \in Workers |-> IF w < n THEN Enqueue(ws, w, task)[w] ELSE ws[w]]

\* the task goes in front of what the worker has in its queue
ScheduleOnWorkerFront(ws, w, task) == EnqueueFront(ws, w, task)

\* Scheduler::ScheduleOnWorker : the given worker's queue, unconditionally
ScheduleOnWorker(ws, w, task) == Enqueue(ws, w, task)

\* a worker is idle iff its queue is empty and it is not executing a task
IsIdle(ws, w) == ws[w].st = "ready" /\ ws[w].q = <<>> /\ ws[w].cur = NoTask

\* the idle queue with its stale head entries (worker already busy) discarded
RECURSIVE DropStale(_, _)
DropStale(ws, iq) ==
    IF iq = <<>> THEN iq
    ELSE IF IsIdle(ws, Head(iq)) THEN iq
    ELSE DropStale(ws, Tail(iq))

\* the worker with the shortest queue, ties broken by the lowest WorkerId
ShortestQueue(ws, n) ==
    Lowest({w \in 0..(n - 1) :
              \A v \in 0..(n - 1) : Len(ws[w].q) <= Len(ws[v].q)})

\* Scheduler::Schedule : the worker the policy picks
PickWorker(ws, n, iq) ==
    IF DropStale(ws, iq) # <<>> THEN Head(DropStale(ws, iq))
    ELSE ShortestQueue(ws, n)

\* Scheduler::Schedule : the idle queue after the pick
IdleAfterPick(ws, iq) ==
    IF DropStale(ws, iq) # <<>> THEN Tail(DropStale(ws, iq)) ELSE <<>>

\* ------------------------------------------------------------- registry
\* what a call of Create or Get handed back to its caller
Returned(t, op, z) == [t |-> t, op |-> op, val |-> z]

\* the insertion left out
RegistryInsertMissing(reg, id, z) == reg

\* NapaZone::Create, line 47 : _zones[settings.id] = zone
RegistryInsert(reg, id, z) == [reg EXCEPT ![id] = z]

\* the check left out : an id is never turned down
CreateRejectsNever(id) == FALSE

\* the check without expired() : an id with an entry is turned down
CreateRejectsStale(id) == registry[id] # NoZone

\* NapaZone::Create, line 35 : the id is taken by a zone that is still alive
CreateRejects(id) == registry[id] # NoZone /\ ~Expired(registry[id])

\* no mutex : a call never waits
MutexFreeAlways(l) == TRUE

\* NapaZone::Create, line 32 and NapaZone::Get, line 55 : the lock_guard gets
\* the registry mutex when no other thread holds it
MutexFree(l) == l = NoThread

\* a thread that has called Create or Get and is waiting for the mutex
Calling(op, id, n) ==
    [IdleThread EXCEPT !.pc = "called", !.op = op, !.id = id, !.n = n]

\* NapaZone::Create, line 32 : the call is made and the thread is at the
\* lock_guard
CreateCall(t, id, n) ==
    /\ ~aborted
    /\ th[t].pc = "idle"
    /\ th' = [th EXCEPT ![t] = Calling("create", id, n)]
    /\ UNCHANGED <<regVars, wk, idleQ, callVars, aborted>>

\* NapaZone::Get, line 55 : the call is made and the thread is at the
\* lock_guard
GetCall(t, id) ==
    /\ ~aborted
    /\ th[t].pc = "idle"
    /\ th' = [th EXCEPT ![t] = Calling("get", id, 0)]
    /\ UNCHANGED <<regVars, wk, idleQ, callVars, aborted>>

\* NapaZone::Create, under the registry mutex.  Either the id is live and
\* the call returns nullptr, or the constructor runs : the scheduler and its
\* workers are built, the counter is set to settings.workers and the
\* bootstrap task is put on every worker; the thread then blocks on the
\* future, still holding the mutex.
Create(t, id, n) ==
    /\ ~aborted
    /\ th[t].pc = "idle" \/ th[t] = Calling("create", id, n)
    /\ MutexFree(lock)
    /\ IF CreateRejects(id)
       THEN /\ ret' = Returned(t, "create", NoZone)
            /\ th' = [th EXCEPT ![t] = IdleThread]
            /\ UNCHANGED <<registry, lock, zone, hold, wk, idleQ>>
       ELSE /\ FreeZones # {}
            /\ LET z == Lowest(FreeZones) IN
                /\ zone' = [zone EXCEPT ![z] =
                              [st |-> "constructing", id |-> id, workers |-> n,
                               counter |-> n, promise |-> "none"]]
                /\ wk' = [wk EXCEPT ![z] =
                            ScheduleOnAllWorkers(NewWorkers(n), n, BootTask)]
                /\ idleQ' = [idleQ EXCEPT ![z] = <<>>]
                /\ th' = [th EXCEPT ![t] = [IdleThread EXCEPT !.pc = "boot",
                                                              !.z = z]]
                /\ lock' = t
            /\ UNCHANGED <<registry, hold, ret>>
    /\ UNCHANGED <<callVars, aborted>>

\* NapaZone::NapaZone, line 110 and NapaZone::Create, lines 47-51 : the
\* future is ready with success; the zone is put in the registry, the mutex
\* is released and the handle is returned
CreateReturn(t) ==
    /\ ~aborted
    /\ th[t].pc = "boot"
    /\ zone[th[t].z].promise = "success"
    /\ LET z == th[t].z IN
        /\ registry' = RegistryInsert(registry, zone[z].id, z)
        /\ zone' = [zone EXCEPT ![z].st = "live"]
        /\ hold' = [hold EXCEPT ![t] = @ \cup {z}]
        /\ ret' = Returned(t, "create", z)
    /\ lock' = NoThread
    /\ th' = [th EXCEPT ![t] = IdleThread]
    /\ UNCHANGED <<wk, idleQ, callVars, aborted>>

\* NapaZone::NapaZone, line 110 : the future is ready with another code and
\* NAPA_ASSERT ends the process
CreateAbort(t) ==
    /\ ~aborted
    /\ th[t].pc = "boot"
    /\ zone[th[t].z].promise \notin {"none", "success"}
    /\ aborted' = TRUE
    /\ UNCHANGED <<regVars, th, wk, idleQ, callVars>>

\* the whole map is cleared
GetReapAll(reg, id) == [i \in Ids |-> NoZone]

\* NapaZone::Get, line 68 : _zones.erase(id)
GetReap(reg, id) == [reg EXCEPT ![id] = NoZone]

\* NapaZone::Get, under the registry mutex : no entry, an expired entry
\* (erased on the way) or the live zone
Get(t, id) ==
    /\ ~aborted
    /\ th[t].pc = "idle" \/ th[t] = Calling("get", id, 0)
    /\ MutexFree(lock)
    /\ LET z == registry[id] IN
        IF z = NoZone
        THEN /\ ret' = Returned(t, "get", NoZone)
             /\ UNCHANGED <<registry, hold>>
        ELSE IF Expired(z)
        THEN /\ registry' = GetReap(registry, id)
             /\ ret' = Returned(t, "get", NoZone)
             /\ UNCHANGED hold
        ELSE /\ hold' = [hold EXCEPT ![t] = @ \cup {z}]
             /\ ret' = Returned(t, "get", z)
             /\ UNCHANGED registry
    /\ th' = [th EXCEPT ![t] = IdleThread]
    /\ UNCHANGED <<lock, zone, wk, idleQ, callVars, aborted>>

\* a thread that waits for the mutex gets it and goes through Create
CreateEnter(t) ==
    /\ th[t].pc = "called"
    /\ th[t].op = "create"
    /\ Create(t, th[t].id, th[t].n)

\* a thread that waits for the mutex gets it and goes through Get
GetEnter(t) ==
    /\ th[t].pc = "called"
    /\ th[t].op = "get"
    /\ Get(t, th[t].id)

\* the client drops its shared_ptr; with the last one gone the weak_ptr in
\* the registry is expired and ~NapaZone runs on this thread, which joins the
\* worker threads
Drop(t, z) ==
    /\ ~aborted
    /\ th[t].pc = "idle"
    /\ z \in hold[t]
    /\ hold' = [hold EXCEPT ![t] = @ \ {z}]
    /\ IF Holders(z) = {t}
       THEN /\ zone' = [zone EXCEPT ![z].st = "destroying"]
            /\ th' = [th EXCEPT ![t] = [IdleThread EXCEPT !.pc = "dtor",
                                                          !.z = z]]
       ELSE UNCHANGED <<zone, th>>
    /\ UNCHANGED <<registry, lock, ret, wk, idleQ, callVars, aborted>>

\* a worker thread can be joined once it is done with its queue
Quiet(ws, w) == ws[w].st = "ready" /\ ws[w].q = <<>> /\ ws[w].cur = NoTask

\* ~NapaZone returns : every worker is done with its queue, its thread has
\* ended and has been joined; the scheduler is gone, its idle queue with it
Destroyed(t) ==
    /\ ~aborted
    /\ th[t].pc = "dtor"
    /\ \A w \in WorkersOf(th[t].z) : Quiet(wk[th[t].z], w)
    /\ wk' = [wk EXCEPT ![th[t].z] =
                [w \in Workers |-> IF w \in WorkersOf(th[t].z)
                                   THEN [@[w] EXCEPT !.st = "stopped"]
                                   ELSE @[w]]]
    /\ zone' = [zone EXCEPT ![th[t].z].st = "dead"]
    /\ idleQ' = [idleQ EXCEPT ![th[t].z] = <<>>]
    /\ th' = [th EXCEPT ![t] = IdleThread]
    /\ UNCHANGED <<registry, lock, hold, ret, callVars, aborted>>

\* ---------------------------------------------------------- CallContext
\* the user callback of an Execute : handed to the CallContext as it is
UserCallback(cl, c, res) ==
    [cl EXCEPT ![c].cbCount = @ + 1, ![c].cbResult = res]

\* the test on the value before the decrement, (*counter)-- == 0
CallOnceFiresPost(k) == k + 1 = 0

\* no counting : every context invokes the callback
CallOnceFiresEach(k) == TRUE

\* NapaZone::Broadcast, line 121 : --(*counter) == 0, on the value after the
\* atomic decrement (the uint32_t counter starts at settings.workers and is
\* decremented once per context, so it never wraps)
CallOnceFires(k) == k = 0

\* the callback gets the first Result, not the last
CallOnceFirst(cl, c, res) ==
    LET k == cl[c].counter - 1
        first == IF cl[c].cbResult = "none" THEN res ELSE cl[c].cbResult IN
    IF k = 0
    THEN [cl EXCEPT ![c].counter = k, ![c].cbCount = @ + 1, ![c].cbResult = first]
    ELSE [cl EXCEPT ![c].counter = k, ![c].cbResult = first]

\* NapaZone::Broadcast, lines 120-124 : callOnce, shared by the N contexts
CallOnce(cl, c, res) ==
    LET k == cl[c].counter - 1 IN
    IF CallOnceFires(k)
    THEN [cl EXCEPT ![c].counter = k, ![c].cbCount = @ + 1, ![c].cbResult = res]
    ELSE [cl EXCEPT ![c].counter = k]

\* the completion callback the CallContext was built with
Callback(cl, c, res) ==
    IF cl[c].kind = "bcast" THEN CallOnce(cl, c, res)
    ELSE UserCallback(cl, c, res)

\* CallContext::Resolve : single shot, the first agent to complete wins and
\* later attempts are no-ops.  B is the record [calls, ctxs, last].
Resolve(B, c, i, res) ==
    IF B.ctxs[c][i].st # "pending" THEN B
    ELSE [calls |-> Callback(B.calls, c, res),
          ctxs |-> [B.ctxs EXCEPT ![c][i].st = "resolved", ![c][i].res = res],
          last |-> [B.last EXCEPT ![c] = i]]

Now == [calls |-> calls, ctxs |-> ctxs, last |-> last]

\* --------------------------------------------------------------- Worker
\* NapaZone::NapaZone, lines 79-91 : the setup hook, once on the worker
\* thread before its first task (worker context, zone, worker id, loader)
WorkerSetup(z, w) ==
    /\ ~aborted
    /\ wk[z][w].st = "starting"
    /\ wk' = [wk EXCEPT ![z][w].st = "ready"]
    /\ UNCHANGED <<regVars, th, idleQ, callVars, aborted>>

\* no counting : the first worker to finish fulfils the promise
BootCallOnceFiresEach(k) == TRUE

\* the test on the value before the decrement, (*counter)-- == 0
BootCallOnceFiresPost(k) == k + 1 = 0

\* off by one : the promise is fulfilled with one worker still to finish
BootCallOnceFiresEarly(k) == k <= 1

\* NapaZone::NapaZone, line 100 : --(*counter) == 0
BootCallOnceFires(k) == k = 0

\* NapaZone::NapaZone, lines 99-103 : callOnce of the bootstrap task
BootCallOnce(zr, res) ==
    LET k == zr.counter - 1 IN
    [zr EXCEPT !.counter = k,
               !.promise = IF BootCallOnceFires(k) THEN res ELSE @]

\* the worker runs the bootstrap EvalTask : the evaluation succeeds or not
\* and the task's callback, callOnce, gets the result
WorkerBoot(z, w, res) ==
    /\ ~aborted
    /\ wk[z][w].st = "ready"
    /\ wk[z][w].cur = NoTask
    /\ wk[z][w].q # <<>>
    /\ Head(wk[z][w].q).boot
    /\ wk' = [wk EXCEPT ![z][w].q = Tail(@), ![z][w].boot = res,
                        ![z][w].deq = @ + 1]
    /\ zone' = [zone EXCEPT ![z] = BootCallOnce(@, res)]
    /\ idleQ' = [idleQ EXCEPT ![z] =
                   IF Tail(wk[z][w].q) = <<>> THEN Append(@, w) ELSE @]
    /\ UNCHANGED <<registry, lock, hold, ret, th, callVars, aborted>>

\* the worker takes the next call task off its queue and begins Execute; a
\* TimeoutTaskDecorator arms its timer before it delegates to the inner task
WorkerStart(z, w) ==
    /\ ~aborted
    /\ zone[z].st = "live"
    /\ wk[z][w].st = "ready"
    /\ wk[z][w].cur = NoTask
    /\ wk[z][w].q # <<>>
    /\ ~Head(wk[z][w].q).boot
    /\ LET task == Head(wk[z][w].q) IN
        /\ wk' = [wk EXCEPT ![z][w].q = Tail(@), ![z][w].cur = task,
                            ![z][w].deq = @ + 1]
        /\ via' = [via EXCEPT ![task.c][w].execs = @ + 1,
                              ![task.c][w].start = wk[z][w].deq + 1]
        /\ ctxs' = [ctxs EXCEPT ![task.c][task.i].timer =
                      IF calls[task.c].deco THEN "armed" ELSE @]
    /\ UNCHANGED <<regVars, th, idleQ, calls, last, aborted>>

\* the inner call completes with a result and resolves its CallContext; a
\* worker left with an empty queue reports itself idle.  The timer is left as
\* it is : a timer that is cancelled in time is one that never fires.
WorkerComplete(z, w, res) ==
    /\ ~aborted
    /\ wk[z][w].cur # NoTask
    /\ LET task == wk[z][w].cur
           B == Resolve(Now, task.c, task.i, res) IN
        /\ calls' = B.calls
        /\ last' = B.last
        /\ ctxs' = B.ctxs
    /\ wk' = [wk EXCEPT ![z][w].cur = NoTask]
    /\ idleQ' = [idleQ EXCEPT ![z] =
                   IF wk[z][w].q = <<>> /\ zone[z].st = "live"
                   THEN Append(@, w) ELSE @]
    /\ UNCHANGED <<regVars, th, via, aborted>>

\* the timer of a TimeoutTaskDecorator fires, before or after the inner call
\* has completed : the CallContext is resolved with timeout, which is a
\* no-op if it is resolved already
TimerFire(c, i) ==
    /\ ~aborted
    /\ ctxs[c][i].timer = "armed"
    /\ LET B == Resolve(Now, c, i, "timeout") IN
        /\ calls' = B.calls
        /\ last' = B.last
        /\ ctxs' = [B.ctxs EXCEPT ![c][i].timer = "fired"]
    /\ UNCHANGED <<regVars, th, wk, idleQ, via, aborted>>

\* shutdown : the worker does not run what is left in its queue, it resolves
\* each pending task with terminated
WorkerDrain(z, w) ==
    /\ ~aborted
    /\ zone[z].st = "destroying"
    /\ wk[z][w].st = "ready"
    /\ wk[z][w].cur = NoTask
    /\ wk[z][w].q # <<>>
    /\ LET task == Head(wk[z][w].q)
           B == Resolve(Now, task.c, task.i, "terminated") IN
        /\ calls' = B.calls
        /\ last' = B.last
        /\ ctxs' = B.ctxs
    /\ wk' = [wk EXCEPT ![z][w].q = Tail(@), ![z][w].deq = @ + 1]
    /\ UNCHANGED <<regVars, th, idleQ, via, aborted>>

\* ----------------------------------------------------- Execute, Broadcast
\* the test the wrong way round
ExecuteDecoratesNot(timeout) == timeout <= 0

\* NapaZone::Execute, line 146 : spec.options.timeout > 0, the task is a
\* TimeoutTaskDecorator<CallTask>
ExecuteDecorates(timeout) == timeout > 0

\* NapaZone::Broadcast, line 129 : spec.options.timeout > 0
BroadcastDecorates(timeout) == timeout > 0

\* NapaZone::Execute : one CallContext with the user callback, decorated
\* with a timeout if options.timeout > 0, handed to Scheduler::Schedule
Execute(t, z, timeout) ==
    /\ ~aborted
    /\ th[t].pc = "idle"
    /\ z \in hold[t]
    /\ FreeCalls # {}
    /\ LET c == Lowest(FreeCalls)
           w == PickWorker(wk[z], zone[z].workers, idleQ[z]) IN
        /\ calls' = [calls EXCEPT ![c] =
                       [NoCallRec EXCEPT !.kind = "exec", !.z = z, !.by = t,
                                         !.timeout = timeout,
                                         !.deco = ExecuteDecorates(timeout)]]
        /\ ctxs' = [ctxs EXCEPT ![c][0].st = "pending"]
        /\ wk' = [wk EXCEPT ![z] = Enqueue(@, w, CallTaskOf(c, 0))]
        /\ idleQ' = [idleQ EXCEPT ![z] = IdleAfterPick(wk[z], @)]
        /\ via' = [via EXCEPT ![c][w].how = "policy", ![c][w].n = @ + 1,
                              ![c][w].pos = wk[z][w].enq + 1]
    /\ UNCHANGED <<regVars, th, last, aborted>>

\* NapaZone::Broadcast, lines 119-124 : the shared counter starts at
\* settings.workers
BroadcastBegin(t, z, timeout) ==
    /\ ~aborted
    /\ th[t].pc = "idle"
    /\ z \in hold[t]
    /\ FreeCalls # {}
    /\ LET c == Lowest(FreeCalls) IN
        /\ calls' = [calls EXCEPT ![c] =
                       [NoCallRec EXCEPT !.kind = "bcast", !.z = z, !.by = t,
                                         !.timeout = timeout,
                                         !.deco = BroadcastDecorates(timeout),
                                         !.counter = zone[z].workers]]
        /\ th' = [th EXCEPT ![t] = [IdleThread EXCEPT !.pc = "bcast", !.z = z,
                                                      !.c = c]]
    /\ UNCHANGED <<regVars, wk, idleQ, ctxs, last, via, aborted>>

\* every task on worker 0
BroadcastTargetFirst(id) == 0

\* NapaZone::Broadcast, line 137 : the worker the id-th task goes to
BroadcastTarget(id) == id

\* NapaZone::Broadcast, lines 126-138 : one turn of the loop, a new
\* CallContext around callOnce put on worker id; the call returns after the
\* last turn
BroadcastStep(t) ==
    /\ ~aborted
    /\ th[t].pc = "bcast"
    /\ LET z == th[t].z
           c == th[t].c
           id == th[t].i
           w == BroadcastTarget(id) IN
        /\ ctxs' = [ctxs EXCEPT ![c][id].st = "pending"]
        /\ wk' = [wk EXCEPT ![z] = ScheduleOnWorker(@, w, CallTaskOf(c, id))]
        /\ via' = [via EXCEPT ![c][w].how = "direct", ![c][w].n = @ + 1,
                              ![c][w].pos = wk[z][w].enq + 1]
        /\ th' = [th EXCEPT ![t] = IF id + 1 < zone[z].workers
                                   THEN [@ EXCEPT !.i = id + 1]
                                   ELSE IdleThread]
    /\ UNCHANGED <<regVars, idleQ, calls, last, aborted>>

\* -------------------------------------------------------- specification
Results == {"success", "error"}

\* spec.options.timeout, in milliseconds : none, or some
Timeouts == {0, 50}

\* the steps of the workers, the timers and the blocked client threads
Internal ==
    \/ \E t \in Threads : CreateReturn(t)
    \/ \E t \in Threads : CreateAbort(t)
    \/ \E t \in Threads : Destroyed(t)
    \/ \E t \in Threads : BroadcastStep(t)
    \/ \E z \in Zones, w \in Workers : WorkerSetup(z, w)
    \/ \E z \in Zones, w \in Workers, res \in Results : WorkerBoot(z, w, res)
    \/ \E z \in Zones, w \in Workers : WorkerStart(z, w)
    \/ \E z \in Zones, w \in Workers, res \in Results : WorkerComplete(z, w, res)
    \/ \E c \in Calls, i \in Workers : TimerFire(c, i)
    \/ \E z \in Zones, w \in Workers : WorkerDrain(z, w)

\* the whole program : any thread, any id, any number of workers
Next ==
    \/ \E t \in Threads, id \in Ids, n \in 1..MaxWorkers : Create(t, id, n)
    \/ \E t \in Threads, id \in Ids : Get(t, id)
    \/ \E t \in Threads, z \in Zones : Drop(t, z)
    \/ \E t \in Threads, z \in Zones, timeout \in Timeouts : Execute(t, z, timeout)
    \/ \E t \in Threads, z \in Zones, timeout \in Timeouts :
          BroadcastBegin(t, z, timeout)
    \/ Internal

Spec == Init /\ [][Next]_vars

\* the registry : several threads creating, getting and dropping zones of
\* one worker each, no calls
NextRegistry ==
    \/ \E t \in Threads, id \in Ids : Create(t, id, 1)
    \/ \E t \in Threads, id \in Ids : Get(t, id)
    \/ \E t \in Threads, z \in Zones : Drop(t, z)
    \/ \E t \in Threads : CreateReturn(t)
    \/ \E t \in Threads : CreateAbort(t)
    \/ \E t \in Threads : Destroyed(t)
    \/ \E z \in Zones, w \in Workers : WorkerSetup(z, w)
    \/ \E z \in Zones, w \in Workers, res \in Results : WorkerBoot(z, w, res)

SpecRegistry == Init /\ [][NextRegistry]_vars

\* one zone : one client thread creates a zone of 1..MaxWorkers workers,
\* submits calls of up to MaxTasks tasks in all to it and drops it
NextZone ==
    \/ \E n \in 1..MaxWorkers : FreeZones = Zones /\ Create(1, "a", n)
    \/ \E z \in Zones : Drop(1, z)
    \/ \E z \in Zones, timeout \in Timeouts :
          TasksUsed + 1 <= MaxTasks /\ Execute(1, z, timeout)
    \/ \E z \in Zones, timeout \in Timeouts :
          TasksUsed + zone[z].workers <= MaxTasks /\ BroadcastBegin(1, z, timeout)
    \/ Internal

SpecZone == Init /\ [][NextZone]_vars

\* the scheduler : thread 1 creates one zone, the other threads get a handle
\* of it; all of them submit Executes and thread 1 submits Broadcasts,
\* MaxCalls calls in all, without timeouts, and they drop their handles; the
\* bootstrap and the calls succeed
NextSched ==
    \/ \E n \in 1..MaxWorkers : FreeZones = Zones /\ Create(1, "a", n)
    \/ CreateReturn(1)
    \/ \E t \in Threads \ {1} : hold[t] = {} /\ Get(t, "a")
    \/ \E t \in Threads, z \in Zones : Drop(t, z)
    \/ \E t \in Threads : Destroyed(t)
    \/ \E t \in Threads, z \in Zones : Execute(t, z, 0)
    \/ \E z \in Zones : BroadcastBegin(1, z, 0)
    \/ BroadcastStep(1)
    \/ \E z \in Zones, w \in Workers : WorkerSetup(z, w)
    \/ \E z \in Zones, w \in Workers : WorkerBoot(z, w, "success")
    \/ \E z \in Zones, w \in Workers : WorkerStart(z, w)
    \/ \E z \in Zones, w \in Workers : WorkerComplete(z, w, "success")
    \/ \E z \in Zones, w \in Workers : WorkerDrain(z, w)

SpecSched == Init /\ [][NextSched]_vars

\* concurrent calls : until a zone has been handed out any thread may call
\* Create of id "a", thread 1 with 1..MaxWorkers workers and the others with
\* one, and Get of it at any time; a call waits at the mutex until it gets
\* it; handles are dropped; the bootstrap succeeds or fails
NextConc ==
    \/ \E t \in Threads, n \in 1..MaxWorkers :
          /\ \A z \in Zones : zone[z].st \in {"none", "constructing"}
          /\ t # 1 => n = 1
          /\ CreateCall(t, "a", n)
    \/ \E t \in Threads : GetCall(t, "a")
    \/ \E t \in Threads : CreateEnter(t)
    \/ \E t \in Threads : GetEnter(t)
    \/ \E t \in Threads : CreateReturn(t)
    \/ \E t \in Threads : CreateAbort(t)
    \/ \E t \in Threads, z \in Zones : Drop(t, z)
    \/ \E t \in Threads : Destroyed(t)
    \/ \E z \in Zones, w \in Workers : WorkerSetup(z, w)
    \/ \E z \in Zones, w \in Workers, res \in Results : WorkerBoot(z, w, res)

SpecConc == Init /\ [][NextConc]_vars

\* what a worker thread does next, whatever it is
WorkerStep(z, w) ==
    \/ WorkerSetup(z, w)
    \/ \E res \in Results : WorkerBoot(z, w, res)
    \/ WorkerStart(z, w)
    \/ \E res \in Results : WorkerComplete(z, w, res)
    \/ WorkerDrain(z, w)

\* what a client thread does next inside Create, Broadcast or ~NapaZone
ThreadStep(t) ==
    \/ CreateReturn(t)
    \/ CreateAbort(t)
    \/ Destroyed(t)
    \/ BroadcastStep(t)

\* every worker thread keeps running, and so does a client thread that is in
\* the middle of a call; timers and new calls are not forced
Fairness ==
    /\ \A z \in Zones, w \in Workers : WF_vars(WorkerStep(z, w))
    /\ \A t \in Threads : WF_vars(ThreadStep(t))

\* the same for the one client thread and the one zone of NextZone
ZoneFairness ==
    /\ \A w \in Workers : WF_vars(WorkerStep(Lowest(Zones), w))
    /\ WF_vars(ThreadStep(1))

FairZone == SpecZone /\ ZoneFairness

\* a thread that waits for the registry mutex gets it when it stays free
MutexFairness ==
    \A t \in Threads : WF_vars(CreateEnter(t) \/ GetEnter(t))

FairConc == SpecConc /\ Fairness /\ MutexFairness

\* C1 : every Execute and every Broadcast invokes the user callback, and
\* exactly once : no call ever has its callback twice, and from some point
\* on every call that was made has had it once, whether the contexts are
\* resolved by the workers, by timers or by the shutdown
C1_CallbackExactlyOnce ==
    /\ [](\A c \in Calls : calls[c].cbCount <= 1)
    /\ <>[](\A c \in Calls : calls[c].kind # "none" => calls[c].cbCount = 1)

\* ----------------------------------------------------- registry claims
\* the zones of this id that a client still holds a handle of
LiveZones(id) == {z \in Zones : zone[z].id = id /\ Holders(z) # {}}

\* the zones of this id whose last handle has been dropped
GoneZones(id) == {z \in Zones : zone[z].id = id /\ Expired(z)
                                  /\ zone[z].st \in {"destroying", "dead"}}

\* C2 : Create with the id of a zone that some client still holds returns
\* nothing, builds no zone, scheduler or worker, and leaves the registry
\* alone, with the first zone still under its id
C2_CreateLiveIdFails ==
    [][\A t \in Threads, id \in Ids :
         (LiveZones(id) # {} /\ \E n \in 1..MaxWorkers : Create(t, id, n))
         => /\ ret' = Returned(t, "create", NoZone)
            /\ registry' = registry
            /\ registry[id] \in LiveZones(id)
            /\ zone' = zone
            /\ wk' = wk
            /\ idleQ' = idleQ
            /\ hold' = hold
            /\ lock' = lock]_vars

\* a Create has returned failure to one thread while another holds a zone
C2_Witness ==
    \E t \in Threads, u \in Threads :
        /\ ret = Returned(t, "create", NoZone)
        /\ u # t
        /\ hold[t] = {}
        /\ hold[u] # {}

\* C3 : as long as a client holds a handle of the zone that Create returned
\* for an id, every Get of that id returns this very zone, whatever Create
\* and Get calls for this or other ids came in between
C3_GetReturnsCreated ==
    [][\A t \in Threads, id \in Ids, z \in Zones :
         (z \in LiveZones(id) /\ Get(t, id))
         => /\ ret' = Returned(t, "get", z)
            /\ z \in hold'[t]
            /\ zone'[z].id = id]_vars

\* a thread got a zone that another thread holds too, with a zone of the
\* other id alive as well
C3_Witness ==
    \E t \in Threads, u \in Threads, z \in Zones, y \in Zones :
        /\ t # u
        /\ ret = Returned(t, "get", z)
        /\ z \in hold[u]
        /\ zone[y].st = "live"
        /\ zone[y].id # zone[z].id

\* C4 : once every handle of the zones of an id is dropped, Create of that
\* id is not turned down, with or without a Get that reaped the entry; it
\* builds a new zone, hands it back when the bootstrap is through, and Get
\* of the id returns the new zone from then on
C4_RecreateAfterDrop ==
    [][\A t \in Threads, id \in Ids :
         /\ (/\ GoneZones(id) # {}
             /\ LiveZones(id) = {}
             /\ \E n \in 1..MaxWorkers : Create(t, id, n))
            => /\ th'[t].pc = "boot"
               /\ zone[th'[t].z].st = "none"
               /\ zone'[th'[t].z].st = "constructing"
               /\ zone'[th'[t].z].id = id
         /\ (/\ th[t].pc = "boot"
             /\ zone[th[t].z].id = id
             /\ GoneZones(id) # {}
             /\ CreateReturn(t))
            => /\ ret' = Returned(t, "create", th[t].z)
               /\ th[t].z \notin GoneZones(id)
               /\ registry'[id] = th[t].z
               /\ th[t].z \in hold'[t]
         /\ (/\ GoneZones(id) # {}
             /\ LiveZones(id) # {}
             /\ Get(t, id))
            => /\ ret'.val \in LiveZones(id)
               /\ ret'.val \notin GoneZones(id)]_vars

\* the id of a dropped zone names a new zone, and a Get has returned it
C4_Witness ==
    \E t \in Threads, old \in Zones, new \in Zones :
        /\ old # new
        /\ zone[old].id = zone[new].id
        /\ zone[old].st \in {"destroying", "dead"}
        /\ zone[new].st = "live"
        /\ registry[zone[new].id] = new
        /\ ret = Returned(t, "get", new)

\* --------------------------------------------------------- call claims
Broadcasts == {c \in Calls : calls[c].kind = "bcast"}
Executes == {c \in Calls : calls[c].kind = "exec"}

\* the workers of the zone a call was submitted to
CallWorkers(c) == WorkersOf(calls[c].z)

\* the CallContexts of a Broadcast that are resolved
ResolvedOf(c) == {i \in CallWorkers(c) : ctxs[c][i].st = "resolved"}

\* Broadcast has returned to its caller : the loop is through
Submitted(c) == \A t \in Threads : ~(th[t].pc = "bcast" /\ th[t].c = c)

\* the task of context i of call c is being executed by some worker
Running(c, i) ==
    \E z \in Zones, w \in Workers : wk[z][w].cur = CallTaskOf(c, i)

\* a call has had its callback after one context timed out and another was
\* terminated by the shutdown of the zone
C1_Witness ==
    \E c \in Broadcasts :
        /\ calls[c].cbCount = 1
        /\ \E i \in CallWorkers(c) : ctxs[c][i].res = "timeout"
        /\ \E i \in CallWorkers(c) : ctxs[c][i].res = "terminated"

\* C5 : the callback of a Broadcast is not invoked while one of the N
\* contexts is unresolved, and it has been invoked exactly once as soon as
\* the N-th is resolved, in whatever order the workers complete
C5_BroadcastCallbackAfterAll ==
    \A c \in Broadcasts :
        /\ calls[c].cbCount <= 1
        /\ calls[c].cbCount = 1 <=>
             (Submitted(c) /\ ResolvedOf(c) = CallWorkers(c))
        /\ calls[c].counter = zone[calls[c].z].workers - Cardinality(ResolvedOf(c))

\* a Broadcast on two workers has called back, worker 0 completing last
C5_Witness ==
    \E c \in Broadcasts :
        /\ calls[c].cbCount = 1
        /\ zone[calls[c].z].workers = 2
        /\ last[c] = 0
        /\ \A i \in CallWorkers(c) : ctxs[c][i].res \in Results

\* C6 : the Result a Broadcast callback gets is the Result of the context
\* that was resolved last; the other N-1 Results, errors too, are dropped
C6_BroadcastLastResult ==
    \A c \in Broadcasts :
        calls[c].cbCount >= 1 =>
            /\ last[c] \in CallWorkers(c)
            /\ calls[c].cbResult = ctxs[c][last[c]].res

\* a Broadcast reports success although an earlier worker failed
C6_Witness ==
    \E c \in Broadcasts :
        /\ calls[c].cbCount = 1
        /\ calls[c].cbResult = "success"
        /\ \E i \in CallWorkers(c) : ctxs[c][i].res = "error"

\* C7 : a Broadcast puts exactly one task on the queue of each worker in
\* [0, N), by ScheduleOnWorker and never by the policy; no worker runs the
\* inner call twice, and every context that was not terminated by the
\* shutdown of the zone was run once, on its own worker
C7_BroadcastOnePerWorker ==
    \A c \in Broadcasts :
        /\ \A w \in Workers :
             /\ via[c][w].how \in {"none", "direct"}
             /\ via[c][w].n <= 1
             /\ via[c][w].execs <= via[c][w].n
             /\ w \notin CallWorkers(c) => via[c][w].n = 0
        /\ Submitted(c) =>
             \A w \in CallWorkers(c) :
                 /\ via[c][w].n = 1
                 /\ via[c][w].how = "direct"
        /\ \A w \in CallWorkers(c) :
             (ctxs[c][w].st = "resolved" /\ ctxs[c][w].res # "terminated")
             => via[c][w].execs = 1

\* a Broadcast on two workers is through, run once on each of them
C7_Witness ==
    \E c \in Broadcasts :
        /\ calls[c].cbCount = 1
        /\ zone[calls[c].z].workers = 2
        /\ \A w \in CallWorkers(c) : via[c][w].execs = 1

\* a zone whose handle Create has returned
HandedOut(z) == zone[z].st \in {"live", "destroying", "dead"}

\* C8 : Create returns a handle only when the bootstrap task has run on
\* every worker of the zone, so on every worker the bootstrap is over before
\* a task of an Execute or a Broadcast starts
C8_BootstrapBarrier ==
    /\ \A z \in Zones :
         HandedOut(z) => \A w \in WorkersOf(z) : wk[z][w].boot # "none"
    /\ \A c \in Calls :
         calls[c].kind # "none" =>
             \A w \in CallWorkers(c) : wk[calls[c].z][w].boot # "none"
    /\ \A c \in Calls, w \in Workers :
         via[c][w].execs > 0 => wk[calls[c].z][w].boot # "none"

\* a call task has started on a worker of a zone of two workers
C8_Witness ==
    \E c \in Calls, w \in Workers :
        /\ via[c][w].execs > 0
        /\ zone[calls[c].z].workers = 2

\* C9 : a bootstrap that fails on any worker is fatal, no zone whose
\* bootstrap failed on a worker is ever handed out
C9_BootFailureIsFatal ==
    \A z \in Zones :
        HandedOut(z) => \A w \in WorkersOf(z) : wk[z][w].boot # "error"

\* C10 : an Execute with a timeout is decorated; when its timer fires before
\* the inner call completes the callback is invoked with timeout, when the
\* inner call completes first the callback gets its result; whichever comes
\* second invokes nothing and changes nothing of what was delivered
C10_TimeoutRace ==
    [][\A c \in Executes :
         calls[c].timeout > 0 =>
           /\ Running(c, 0) => ctxs[c][0].timer \in {"armed", "fired"}
           /\ calls[c].cbCount <= 1
           /\ (ctxs[c][0].st = "pending" /\ TimerFire(c, 0))
              => (calls'[c].cbCount = 1 /\ calls'[c].cbResult = "timeout")
           /\ \A z \in Zones, w \in Workers, res \in Results :
                (/\ ctxs[c][0].st = "pending"
                 /\ wk[z][w].cur = CallTaskOf(c, 0)
                 /\ WorkerComplete(z, w, res))
                => (calls'[c].cbCount = 1 /\ calls'[c].cbResult = res)
           /\ calls[c].cbCount = 1 => calls'[c] = calls[c]]_vars

\* the timer won, and the inner call has completed since
C10_Witness ==
    \E c \in Executes :
        /\ calls[c].cbCount = 1
        /\ calls[c].cbResult = "timeout"
        /\ ctxs[c][0].timer = "fired"
        /\ \E w \in Workers : via[c][w].execs = 1
        /\ ~Running(c, 0)

\* ------------------------------------------------------ scheduler claims
\* the call tasks that were put on the queue of worker w
PlacedOn(w) == {c \in Calls : calls[c].kind # "none" /\ via[c][w].n > 0}

\* the task of call c has begun its Execute on worker w
StartedOn(c, w) == via[c][w].execs > 0

\* C11 : on every worker the tasks start in the order they were put on its
\* queue, whether by the policy, by ScheduleOnWorker or by
\* ScheduleOnAllWorkers : of two call tasks of a worker the one enqueued later
\* has not started unless the earlier one has, and started after it; the
\* bootstrap task, put there first by ScheduleOnAllWorkers, runs before all
C11_FifoPerWorker ==
    \A w \in Workers :
        /\ \A c1 \in PlacedOn(w), c2 \in PlacedOn(w) :
             (/\ calls[c1].z = calls[c2].z
              /\ via[c1][w].pos < via[c2][w].pos
              /\ StartedOn(c2, w))
             => /\ StartedOn(c1, w)
                /\ via[c1][w].start < via[c2][w].start
        /\ \A c \in PlacedOn(w) :
             /\ via[c][w].pos > 1
             /\ StartedOn(c, w) => /\ wk[calls[c].z][w].boot # "none"
                                   /\ via[c][w].start > 1

\* a worker has started a task the policy gave it and, after it, a task put
\* on its queue by ScheduleOnWorker
C11_Witness ==
    \E w \in Workers : \E c1 \in PlacedOn(w), c2 \in PlacedOn(w) :
        /\ via[c1][w].how = "policy"
        /\ via[c2][w].how = "direct"
        /\ via[c1][w].pos < via[c2][w].pos
        /\ StartedOn(c1, w)
        /\ StartedOn(c2, w)

\* the workers of zone z with an empty queue that execute nothing
IdleWorkers(z) == {w \in WorkersOf(z) : IsIdle(wk[z], w)}

\* the tasks in the queue of worker v of zone z that the policy put there
PolicyWaiting(z, v) ==
    {k \in 1..Len(wk[z][v].q) :
        /\ ~wk[z][v].q[k].boot
        /\ via[wk[z][v].q[k].c][v].how = "policy"}

\* C12 : no worker of a zone stays idle while a task that Schedule placed
\* waits in the queue of another worker behind the task that worker is
\* running
C12_NoIdleWhileTaskWaits ==
    \A z \in Zones :
        zone[z].st = "live" =>
            \A w \in IdleWorkers(z), v \in WorkersOf(z) :
                ~(/\ v # w
                  /\ wk[z][v].cur # NoTask
                  /\ PolicyWaiting(z, v) # {})

\* ---------------------------------------------- registry claims, continued
\* the zones of an id that were created and whose destruction, the joining
\* of the worker threads, is not over
Existing(id) ==
    {z \in Zones : zone[z].id = id
                   /\ zone[z].st \in {"constructing", "live", "destroying"}}

\* C13 : from the creation of a zone of an id until its destruction has
\* joined all its worker threads there is no second zone of that id
C13_UniqueUntilDestroyed ==
    \A id \in Ids : Cardinality(Existing(id)) <= 1

\* C14 : Get returns the live zone or nothing and changes the registry only
\* by reaping : no entry, nothing is returned and the registry is as it was;
\* an entry whose zone has lost its last handle, nothing is returned and
\* this entry is removed; a live zone, it is returned and the registry is as
\* it was; the entries of the other ids, the zones, the workers and the
\* mutex are never touched
C14_GetFrame ==
    [][\A t \in Threads, id \in Ids :
         Get(t, id) =>
           /\ \A other \in Ids \ {id} : registry'[other] = registry[other]
           /\ registry[id] = NoZone
              => /\ ret' = Returned(t, "get", NoZone)
                 /\ registry' = registry
                 /\ hold' = hold
           /\ (registry[id] # NoZone /\ Expired(registry[id]))
              => /\ ret' = Returned(t, "get", NoZone)
                 /\ registry'[id] = NoZone
                 /\ hold' = hold
           /\ (registry[id] # NoZone /\ ~Expired(registry[id]))
              => /\ ret' = Returned(t, "get", registry[id])
                 /\ registry' = registry
                 /\ hold' = [hold EXCEPT ![t] = @ \cup {registry[id]}]
           /\ zone' = zone
           /\ wk' = wk
           /\ lock' = lock]_vars

\* a Get has reaped the entry of a dropped zone and the other id still has
\* its entry
C14_Witness ==
    \E t \in Threads, id \in Ids, other \in Ids :
        /\ ret = Returned(t, "get", NoZone)
        /\ GoneZones(id) # {}
        /\ registry[id] = NoZone
        /\ other # id
        /\ registry[other] # NoZone

\* --------------------------------------------------- concurrent creation
\* the zones that were ever constructed for an id
Constructed(id) == {z \in Zones : zone[z].st # "none" /\ zone[z].id = id}

\* the zones of an id that are under construction or held by a client
InUse(id) ==
    {z \in Zones : zone[z].id = id
                   /\ (zone[z].st = "constructing" \/ Holders(z) # {})}

\* C15, as claimed : of the Create calls of one id that are made together
\* while no zone of the id is live (every Create call of NextConc is) one
\* succeeds and the others fail, so that only one zone, with its scheduler
\* and workers, is ever constructed for the id
C15_OneCreateWins ==
    \A id \in Ids : Cardinality(Constructed(id)) <= 1

\* C15, amended : the concurrent Create calls of an id go through the
\* registry mutex one at a time; a call that gets the mutex while a handle
\* of a zone of the id is held returns failure and constructs nothing, a
\* call that finds none held constructs a zone; at no time is more than one
\* zone under construction, nor more than one zone of an id held or under
\* construction
C15_ConcurrentCreate ==
    [][/\ \A t \in Threads :
            CreateEnter(t) =>
              IF LiveZones(th[t].id) # {}
              THEN /\ ret' = Returned(t, "create", NoZone)
                   /\ th'[t] = IdleThread
                   /\ zone' = zone
                   /\ wk' = wk
                   /\ registry' = registry
              ELSE /\ th'[t].pc = "boot"
                   /\ zone[th'[t].z].st = "none"
                   /\ zone'[th'[t].z].st = "constructing"
                   /\ zone'[th'[t].z].id = th[t].id
       /\ Cardinality({z \in Zones : zone'[z].st = "constructing"}) <= 1
       /\ \A id \in Ids : Cardinality(InUse(id)') <= 1]_vars

\* of two calls made together one has returned a zone, which is still held,
\* and the other has returned failure; one zone was constructed
C15_Witness ==
    \E t \in Threads, u \in Threads :
        /\ t # u
        /\ ret = Returned(u, "create", NoZone)
        /\ hold[t] # {}
        /\ Cardinality(Constructed("a")) = 1

\* the bootstrap task has finished on every worker of zone z, given the
\* zones zn and the workers ws
BootstrappedIn(zn, ws, z) ==
    /\ zn[z].counter = 0
    /\ zn[z].promise # "none"
    /\ \A w \in Workers : w < zn[z].workers => ws[z][w].boot # "none"

Bootstrapped(z) == BootstrappedIn(zone, wk, z)

\* C16 : Get never returns a zone whose bootstrap has not finished on all
\* its workers : a zone is in the registry only once its constructor, the
\* barrier included, has returned; no Get goes through the registry while a
\* zone is under construction, so a Get called during the Create of its id
\* returns nothing or the zone with its bootstrap over
C16_GetOnlyBootstrapped ==
    [][/\ \A t \in Threads, id \in Ids :
            Get(t, id) =>
              /\ \A z \in Zones : zone[z].st # "constructing"
              /\ ret'.val # NoZone =>
                   /\ Bootstrapped(ret'.val)
                   /\ zone[ret'.val].st = "live"
                   /\ zone[ret'.val].id = id
       /\ \A id \in Ids :
            registry'[id] # NoZone =>
              /\ BootstrappedIn(zone', wk', registry'[id])
              /\ zone'[registry'[id]].st # "constructing"]_vars

\* a Get has returned a zone of more than one worker
C16_Witness ==
    \E t \in Threads, z \in Zones :
        /\ ret = Returned(t, "get", z)
        /\ z \in hold[t]
        /\ zone[z].workers > 1

\* C17, as claimed : with workers that run what is in their queues, every
\* Create that has begun to construct its zone returns and gives the mutex
\* back, and every call that waits for the mutex gets through
C17_CreateReturns ==
    /\ \A t \in Threads :
         (th[t].pc = "boot") ~> (th[t].pc = "idle" /\ lock # t)
    /\ \A t \in Threads :
         (th[t].pc = "called") ~> (th[t].pc # "called")

\* C17, amended : the bootstrap counter of a zone under construction gets to
\* zero and the promise is fulfilled then, once; Create then returns its
\* zone and gives the mutex back, and the calls that wait for the mutex get
\* through, unless the promise carries a failure and NAPA_ASSERT ends the
\* process.  "P leads to not P" is written "again and again not P".
C17_CreateTerminates ==
    /\ [](\A z \in Zones : zone[z].promise # "none" => zone[z].counter = 0)
    /\ [][\A z \in Zones :
            zone[z].promise # "none" => zone'[z].promise = zone[z].promise]_vars
    /\ [][\A t \in Threads :
            (th[t].pc = "boot" /\ th'[t].pc # "boot")
            => /\ th'[t] = IdleThread
               /\ ret' = Returned(t, "create", th[t].z)
               /\ lock = t
               /\ lock' = NoThread]_vars
    /\ \A z \in Zones :
         []<>(zone[z].st # "constructing"
              \/ (zone[z].counter = 0 /\ zone[z].promise # "none"))
    /\ \A t \in Threads : []<>(th[t].pc # "boot" \/ aborted)
    /\ \A t \in Threads : []<>(th[t].pc # "called" \/ aborted)

\* a Create of a zone of several workers has returned and given the mutex
\* back while the call of another thread waits for it
C17_Witness ==
    \E t \in Threads, u \in Threads, z \in Zones :
        /\ ret = Returned(t, "create", z)
        /\ zone[z].workers > 1
        /\ zone[z].counter = 0
        /\ zone[z].promise = "success"
        /\ lock = NoThread
        /\ th[u].pc = "called"

\* ------------------------------------------------------ Broadcast order
\* Broadcast c1 was issued, and had returned, before the same thread issued
\* Broadcast c2 on the same zone (calls are numbered as they are made)
IssuedBefore(c1, c2) ==
    /\ c1 \in Broadcasts
    /\ c2 \in Broadcasts
    /\ c1 < c2
    /\ calls[c1].by = calls[c2].by
    /\ calls[c1].z = calls[c2].z

\* C18 : of two Broadcasts that one thread issues one after the other on a
\* zone, the task of the first is on every worker's queue before the task of
\* the second and starts before it, whatever tasks of other submitters are
\* put between them
C18_BroadcastOrder ==
    \A c1 \in Calls, c2 \in Calls :
        IssuedBefore(c1, c2) =>
            \A w \in CallWorkers(c2) :
                /\ via[c2][w].n > 0
                   => /\ via[c1][w].n > 0
                      /\ via[c1][w].pos < via[c2][w].pos
                /\ StartedOn(c2, w)
                   => /\ StartedOn(c1, w)
                      /\ via[c1][w].start < via[c2][w].start

\* two Broadcasts of one thread have started on both workers of a zone, and
\* on one of them the Execute of another thread was put between the two
C18_Witness ==
    \E c1 \in Calls, c2 \in Calls, e \in Executes :
        /\ IssuedBefore(c1, c2)
        /\ zone[calls[c2].z].workers = 2
        /\ \A w \in CallWorkers(c2) : StartedOn(c1, w) /\ StartedOn(c2, w)
        /\ calls[e].by # calls[c1].by
        /\ calls[e].z = calls[c1].z
        /\ \E w \in CallWorkers(c2) :
             /\ via[e][w].n > 0
             /\ via[c1][w].pos < via[e][w].pos
             /\ via[e][w].pos < via[c2][w].pos

\* ------------------------------------------------------------ idle queue
\* the places of worker w in the idle queue of zone z
IdleEntries(z, w) == {k \in 1..Len(idleQ[z]) : idleQ[z][k] = w}

\* C19 : no WorkerId is in the idle queue of its scheduler more than once,
\* whatever was scheduled by Schedule, ScheduleOnWorker and
\* ScheduleOnAllWorkers and whenever the workers reported idle
C19_IdleQueueAtMostOnce ==
    \A z \in Zones, w \in Workers : Cardinality(IdleEntries(z, w)) <= 1

====
